---- MODULE Spec2Model ----
(***************************************************************************)
(* Wave Function Collapse engine (src/src/lib.rs): tile extraction,        *)
(* adjacency computation, the step()/reset() state machine and the         *)
(* contradiction recovery.                                                 *)
(*                                                                         *)
(* A Color is modelled by a natural number (equality of colours is exact   *)
(* equality of the three channels, so one number per distinct colour).     *)
(* A Tile is a sequence of rows; the source indexes from 0, the sequences  *)
(* from 1, hence the "+ 1" in Px.  A Domain (u128 bitmask) is the set of   *)
(* the tile indices whose bit is set; the entropy cache is kept apart from *)
(* it, as in the source.                                                   *)
(***************************************************************************)
EXTENDS Integers, Sequences, FiniteSets, TLC

VARIABLES
    input_colors,           \* the image handed to WfcEngine::new
    output_size,
    tile_size,
    tiles,                  \* [0..T-1 -> Tile]
    weights,                \* [0..T-1 -> Nat]
    adjacencies,            \* [0..T-1 -> [DirSet -> Domain]]
    all_flags,
    matrix,                 \* [0..N*N-1 -> Domain]
    entropy_map,            \* [0..N*N-1 -> Nat]
    stack,                  \* Seq(<<row, col>>), top at the end
    last_contradiction_pos,
    local_reset_size,
    local_reset_attempts,
    op,                     \* the call that returned last: "new", "step", "reset"
    ret,                    \* what it returned: "true", "false", "none"
    streak,                 \* step() calls in a row, up to now, that ended in a contradiction
    run_start,              \* <<local_reset_size, local_reset_attempts>> when that run began
    ever_contradicted,      \* handle_contradiction was called since construction
    pre_counters,           \* <<local_reset_size, local_reset_attempts>> before the last call
    pre_collapsed,          \* get_collapsed_count() before the last call
    observed                \* what observe() did in the last call: "none" (not called),
                            \* "member" (returned a tile of the mask), "other" (returned
                            \* a tile outside the mask), "fallback" (the mask was empty)

immutable == <<input_colors, output_size, tile_size, tiles, weights, adjacencies, all_flags>>
mutable == <<matrix, entropy_map, stack, last_contradiction_pos, local_reset_size, local_reset_attempts>>
history == <<op, ret, streak, run_start, ever_contradicted, pre_counters, pre_collapsed, observed>>
vars == <<immutable, mutable, history>>

----------------------------------------------------------------------------
(* Bounds of the model. *)

\* largest output_size for tile sets without adjacency constraints (tile_size 1)
\* and, from 2 on, for the small grids of the 8-tile set
MaxFree == 2
\* largest output_size for the constrained 2x2 tile sets
MaxOut == 3
\* the output_size at which the striped tile set (every collapse contradicts) is run
\* besides output_size 8 and the small sizes
MaxEsc == 12
\* number of colours of the images of AnyImageScenarios
NumColors == 3
\* streak saturates here
StreakCap == 10
\* tile sets of up to this many tiles are tried in every iteration order of the
\* HashMap; larger ones in the rotations, by 0..MaxShift places, of one order
MaxPermuted == 4
MaxShift == 1
\* on grids of side InitialResetSize and more the rng picks among the first
\* MaxPick candidates of find_lowest_entropy
MaxPick == 1
\* the tile counts tried around the size limit: 1..MaxFew and MaxTiles -/+ MaxFew
MaxFew == 1

\* program constants
InitialResetSize == 8
MaxAttempts == 8
ResetGrowth == 4
MaxTiles == 128

----------------------------------------------------------------------------
(* Input images. *)

Mono == << <<0, 0>>, <<0, 0>> >>
Checker == << <<0, 1>>, <<1, 0>> >>
Corner == << <<0, 0>>, <<0, 1>> >>
Half == << <<0, 1>>, <<0, 1>> >>
Adversarial == << <<0, 1>>, <<2, 3>> >>
Stripes == << <<0, 0, 0>>, <<1, 1, 1>>, <<0, 0, 0>> >>
Mixed == << <<0, 1, 1>>, <<0, 0, 2>> >>

Scenarios ==
    [input : {Mono, Checker}, tile_size : {1}, output_size : 0..MaxFree]
    \cup [input : {Mono, Checker, Corner, Half, Adversarial}, tile_size : {2},
           output_size : 0..MaxOut]
    \cup [input : {Stripes}, tile_size : {3},
           output_size : (0..MaxOut) \cup {InitialResetSize, MaxEsc}]

\* every 2x2 image over NumColors colours with tile sizes 1 and 2, and every
\* two-colour 3x3 image with tile size 3, on a one-cell grid
AnyImageScenarios ==
    [input : [1..2 -> [1..2 -> 0..(NumColors - 1)]], tile_size : {1, 2}, output_size : {1}]
    \cup [input : [1..3 -> [1..3 -> {0, 1}]], tile_size : {3}, output_size : {1}]

\* a tile set (8 tiles) with which some collapses propagate and some contradict,
\* on small grids and on the smallest grid that is repaired by local resets
RecoveryScenarios ==
    [input : {Mixed}, tile_size : {2}, output_size : (2..MaxFree) \cup {InitialResetSize}]

\* a one-row image of k pairwise different colours: k unique 1x1 tiles
RowImage(k) == << [c \in 1..k |-> c - 1] >>

SizeLimitScenarios ==
    [input : {RowImage(k) : k \in (1..MaxFew) \cup ((MaxTiles - MaxFew)..(MaxTiles + MaxFew))},
     tile_size : {1}, output_size : {1}]

IsCheckerboard(img) ==
    /\ Len(img) = 2 /\ Len(img[1]) = 2 /\ Len(img[2]) = 2
    /\ img[1][1] = img[2][2] /\ img[1][2] = img[2][1] /\ img[1][1] # img[1][2]

----------------------------------------------------------------------------
(* Tile extraction. *)

Px(t, r, c) == t[r + 1][c + 1]

RotateTile(tile) ==
    LET size == Len(tile)
    IN  [a \in 1..size |-> [b \in 1..size |-> Px(tile, size - b, a - 1)]]

Window(img, tsz, r, c) ==
    [tr \in 1..tsz |-> [tc \in 1..tsz |-> Px(img, r + tr - 1, c + tc - 1)]]

RECURSIVE Rotated(_, _)
Rotated(tile, k) == IF k = 0 THEN tile ELSE RotateTile(Rotated(tile, k - 1))

RegistrationsUnrotated(img, tsz) ==
    (0..(Len(img) - tsz)) \X (0..(Len(img[1]) - tsz)) \X (0..0)

\* every (window position, rotation) pair that extract_tiles registers
Registrations(img, tsz) ==
    (0..(Len(img) - tsz)) \X (0..(Len(img[1]) - tsz)) \X (0..3)

Registered(img, tsz, reg) ==
    Rotated(Window(img, tsz, reg[1], reg[2]), reg[3])

\* the frequency map tile_counts, as a function on its key set
TileCounts(img, tsz) ==
    LET regs == Registrations(img, tsz)
        keys == {Registered(img, tsz, reg) : reg \in regs}
    IN  [t \in keys |->
            Cardinality({reg \in regs : Registered(img, tsz, reg) = t})]

\* the orders in which iterating the HashMap can yield its keys
TileOrders(counts) ==
    LET keys == DOMAIN counts
        n == Cardinality(keys)
    IN  {f \in [0..(n - 1) -> keys] : \A i, j \in 0..(n - 1) : f[i] = f[j] => i = j}

\* one more than the largest colour of an image
ColorBase(img) ==
    1 + (CHOOSE m \in {img[r][c] : r \in DOMAIN img, c \in DOMAIN img[1]} :
            \A r \in DOMAIN img, c \in DOMAIN img[1] : img[r][c] <= m)

\* a tile read as a number, its pixels being the digits
RECURSIVE TileCode(_, _, _)
TileCode(tile, base, k) ==
    LET size == Len(tile)
    IN  IF k >= size * size THEN 0
        ELSE Px(tile, k \div size, k % size) + base * TileCode(tile, base, k + 1)

\* (f @@ <<>> is f, with its values computed once)
SortedOrder(counts, base) ==
    LET keys == DOMAIN counts
    IN  CHOOSE order \in
            {[k \in 0..(Cardinality(keys) - 1) |->
                    CHOOSE t \in keys : Cardinality({u \in keys : code[u] < code[t]}) = k] :
                code \in {[t \in keys |-> TileCode(t, base, 0)] @@ <<>>}} : TRUE

ShiftedOrders(counts, base) ==
    LET n == Cardinality(DOMAIN counts)
    IN  UNION {{[k \in 0..(n - 1) |-> sorted[(k + s) % n]] :
                    s \in {x \in 0..MaxShift : x < n}} :
                sorted \in {SortedOrder(counts, base)}}

\* the iteration orders tried for a frequency map
Orders(counts, img) ==
    IF Cardinality(DOMAIN counts) <= MaxPermuted THEN TileOrders(counts)
    ELSE ShiftedOrders(counts, ColorBase(img))

----------------------------------------------------------------------------
(* Adjacency. *)

Dirs == << <<-1, 0>>, <<1, 0>>, <<0, -1>>, <<0, 1>> >>
DirSet == {Dirs[k] : k \in 1..4}
Opposite(d) == <<0 - d[1], 0 - d[2]>>

CanOverlapStrict(t1, t2, dr, dc) ==
    LET size == Len(t1)
    IN  \A r1, c1 \in 0..(size - 1) :
            LET r2 == r1 + dr
                c2 == c1 + dc
            IN  /\ (r2 >= 0 /\ r2 < size /\ c2 >= 0 /\ c2 < size)
                /\ Px(t1, r1, c1) = Px(t2, r2, c2)

CanOverlapSameCell(t1, t2, dr, dc) ==
    LET size == Len(t1)
    IN  \A r1, c1 \in 0..(size - 1) :
            LET r2 == r1 + dr
                c2 == c1 + dc
            IN  (r2 >= 0 /\ r2 < size /\ c2 >= 0 /\ c2 < size)
                    => Px(t1, r1, c1) = Px(t2, r1, c1)

CanOverlap(t1, t2, dr, dc) ==
    LET size == Len(t1)
    IN  \A r1, c1 \in 0..(size - 1) :
            LET r2 == r1 + dr
                c2 == c1 + dc
            IN  (r2 >= 0 /\ r2 < size /\ c2 >= 0 /\ c2 < size)
                    => Px(t1, r1, c1) = Px(t2, r2, c2)

ComputeAdjacenciesNoSelf(ts) ==
    [i \in DOMAIN ts |->
        [d \in DirSet |->
            {j \in DOMAIN ts : j # i /\ CanOverlap(ts[i], ts[j], d[1], d[2])}]]

ComputeAdjacencies(ts) ==
    [i \in DOMAIN ts |->
        [d \in DirSet |-> {j \in DOMAIN ts : CanOverlap(ts[i], ts[j], d[1], d[2])}]]

\* all_flags: !0u128 for 128 tiles, else (1u128 << n) - 1, the shift amount
\* being taken modulo the width of the integer
AllFlags(n) == IF n = MaxTiles THEN 0..(MaxTiles - 1) ELSE 0..((n % MaxTiles) - 1)

----------------------------------------------------------------------------
(* Engine helpers. *)

NumTiles == Cardinality(DOMAIN tiles)
Cells == 0..(output_size * output_size - 1)

CountOnes(mask) == Cardinality(mask)

GetCollapsedCount == Cardinality({i \in Cells : entropy_map[i] = 1})

InGrid(nr, nc) == nr >= 0 /\ nr < output_size /\ nc >= 0 /\ nc < output_size


Idx(r, c) == r * output_size + c

----------------------------------------------------------------------------
(* find_lowest_entropy: the candidates among which the rng picks one. *)

UndeterminedOrCollapsed(e) == e >= 1

Undetermined(e) == e > 1

FindLowestEntropy(emap) ==
    LET open == {i \in DOMAIN emap : Undetermined(emap[i])}
    IN  {i \in open : \A j \in open : emap[i] <= emap[j]}

\* the candidates the rng's index can select
Picks(candidates) ==
    IF output_size < InitialResetSize THEN candidates
    ELSE {i \in candidates : Cardinality({j \in candidates : j < i}) < MaxPick}

----------------------------------------------------------------------------
(* observe: weighted sampling.  The uniform draw r in [0, total_weight) is *)
(* taken in half units (the weights are whole numbers), so that every      *)
(* outcome of the real-valued draw has a representative.                   *)

OptionsAll(mask) ==
    [k \in 1..NumTiles |-> k - 1]

Options(mask) ==
    LET s == {i \in DOMAIN tiles : i \in mask}
    IN  [k \in 1..Cardinality(s) |->
            CHOOSE i \in s : Cardinality({j \in s : j < i}) = k - 1]

\* total_weight over options[lo..hi]; the range is halved so that the
\* evaluation nests no deeper than the logarithm of its length
RECURSIVE TotalWeight(_, _, _)
TotalWeight(options, lo, hi) ==
    IF lo > hi THEN 0
    ELSE IF lo = hi THEN weights[options[lo]]
    ELSE LET mid == (lo + hi) \div 2
         IN  TotalWeight(options, lo, mid) + TotalWeight(options, mid + 1, hi)

\* the loop of observe() over options[lo..hi], in order, entered with r:
\* the tile returned, if it returns within the range, and r after the range
RECURSIVE ObserveLoop(_, _, _, _)
ObserveLoop(options, lo, hi, r) ==
    IF lo = hi
    THEN LET r1 == r - 2 * weights[options[lo]]
         IN  [returned |-> r1 <= 0, idx |-> options[lo], r |-> r1]
    ELSE LET mid == (lo + hi) \div 2
         IN  CHOOSE out \in
                {IF left.returned THEN left ELSE ObserveLoop(options, mid + 1, hi, left.r) :
                    left \in {ObserveLoop(options, lo, mid, r)}} : TRUE

\* the fallback after the loop is the last option
Observe(options, r) ==
    LET out == ObserveLoop(options, 1, Len(options), r)
    IN  IF out.returned THEN out.idx ELSE options[Len(options)]

\* the tiles observe() can return, over all draws; 0 when there is no option
ObserveOutcomes(options) ==
    IF Len(options) = 0 THEN {0}
    ELSE {Observe(options, draw) :
            draw \in 0..(2 * TotalWeight(options, 1, Len(options)) - 1)}

----------------------------------------------------------------------------
(* propagate *)

NeverContradiction(updated_mask) == FALSE

IsContradiction(updated_mask) == updated_mask = {}

AllowedMask(current_mask, d) ==
    UNION {adjacencies[i][d] : i \in {t \in DOMAIN tiles : t \in current_mask}}

\* the loop over the 4 offsets for the popped cell (r, c), from offset k on
RECURSIVE PropagateDirs(_, _, _, _, _, _, _)
PropagateDirs(m, e, st, r, c, current_mask, k) ==
    IF k > 4 THEN [ok |-> TRUE, matrix |-> m, entropy_map |-> e, stack |-> st]
    ELSE LET nr == r + Dirs[k][1]
             nc == c + Dirs[k][2]
         IN  IF ~InGrid(nr, nc) THEN PropagateDirs(m, e, st, r, c, current_mask, k + 1)
             ELSE LET n_idx == Idx(nr, nc)
                      n_mask == m[n_idx]
                      updated_mask == n_mask \cap AllowedMask(current_mask, Dirs[k])
                  IN  IF e[n_idx] <= 1
                          THEN PropagateDirs(m, e, st, r, c, current_mask, k + 1)
                      ELSE IF IsContradiction(updated_mask)
                          THEN [ok |-> FALSE, matrix |-> m, entropy_map |-> e, stack |-> st]
                      ELSE IF updated_mask # n_mask
                          THEN PropagateDirs([m EXCEPT ![n_idx] = updated_mask],
                                             [e EXCEPT ![n_idx] = CountOnes(updated_mask)],
                                             Append(st, <<nr, nc>>),
                                             r, c, current_mask, k + 1)
                      ELSE PropagateDirs(m, e, st, r, c, current_mask, k + 1)

\* one round of the while loop: pop a cell and visit its 4 neighbours
PropagatePop(p) ==
    LET top == p.stack[Len(p.stack)]
    IN  PropagateDirs(p.matrix, p.entropy_map, SubSeq(p.stack, 1, Len(p.stack) - 1),
                      top[1], top[2], p.matrix[Idx(top[1], top[2])], 1)

\* the loop has ended: it returned false, or the stack is empty
PropagateEnded(p) == ~p.ok \/ p.stack = <<>>

\* up to n rounds of the while loop; the rounds are run half by half, so that
\* the evaluation nests no deeper than the logarithm of n
\* (CHOOSE over a one-element set names a value that is computed once)
RECURSIVE PropagateRounds(_, _)
PropagateRounds(p, n) ==
    IF PropagateEnded(p) THEN p
    ELSE IF n <= 1 THEN PropagatePop(p)
    ELSE CHOOSE out \in
            {IF PropagateEnded(half) THEN half ELSE PropagateRounds(half, n - (n \div 2)) :
                half \in {PropagateRounds(p, n \div 2)}} : TRUE

\* a cell is pushed when it is collapsed and each time its Domain shrinks, so
\* the loop ends within 1 + cells * tiles rounds
Propagate(m, e, st) ==
    PropagateRounds([ok |-> TRUE, matrix |-> m, entropy_map |-> e, stack |-> st],
                    1 + Cardinality(DOMAIN m) * NumTiles)

----------------------------------------------------------------------------
(* reset, reset_local, handle_contradiction: the new values of the fields  *)
(* they assign.                                                            *)

ResetKeepsEntropy(m, e) ==
    [matrix |-> [i \in DOMAIN m |-> all_flags],
     entropy_map |-> e,
     stack |-> <<>>,
     local_reset_size |-> InitialResetSize,
     local_reset_attempts |-> 0]

ResetKeepsCounters(m, e) ==
    [matrix |-> [i \in DOMAIN m |-> all_flags],
     entropy_map |-> [i \in DOMAIN e |-> NumTiles],
     stack |-> <<>>,
     local_reset_size |-> local_reset_size,
     local_reset_attempts |-> local_reset_attempts]

ResetState(m, e) ==
    [matrix |-> [i \in DOMAIN m |-> all_flags],
     entropy_map |-> [i \in DOMAIN e |-> NumTiles],
     stack |-> <<>>,
     local_reset_size |-> InitialResetSize,
     local_reset_attempts |-> 0]

ResetLocalKeepsEntropy(m, e, st, row, col, size, attempts) ==
    [matrix |-> [i \in DOMAIN m |->
                    LET dr == (i \div output_size) - row
                        dc == (i % output_size) - col
                        half == size \div 2
                    IN  IF dr >= 0 - half /\ dr < half /\ dc >= 0 - half /\ dc < half
                        THEN all_flags ELSE m[i]],
     entropy_map |-> e,
     stack |-> <<>>,
     local_reset_size |-> size,
     local_reset_attempts |-> attempts]

InSquareClosed(idx, row, col, size) ==
    LET half == size \div 2
        dr == (idx \div output_size) - row
        dc == (idx % output_size) - col
    IN  dr >= 0 - half /\ dr <= half /\ dc >= 0 - half /\ dc <= half

\* the cell idx is visited by the loops "for dr in -half..half", "for dc in -half..half"
InSquare(idx, row, col, size) ==
    LET half == size \div 2
        dr == (idx \div output_size) - row
        dc == (idx % output_size) - col
    IN  dr >= 0 - half /\ dr < half /\ dc >= 0 - half /\ dc < half

ResetLocalKeepsStack(m, e, st, row, col, size, attempts) ==
    [matrix |-> [i \in DOMAIN m |-> IF InSquare(i, row, col, size) THEN all_flags ELSE m[i]],
     entropy_map |-> [i \in DOMAIN e |-> IF InSquare(i, row, col, size) THEN NumTiles ELSE e[i]],
     stack |-> st,
     local_reset_size |-> size,
     local_reset_attempts |-> attempts]

\* st is the stack that propagate() left behind when it returned false
ResetLocal(m, e, st, row, col, size, attempts) ==
    [matrix |-> [i \in DOMAIN m |-> IF InSquare(i, row, col, size) THEN all_flags ELSE m[i]],
     entropy_map |-> [i \in DOMAIN e |-> IF InSquare(i, row, col, size) THEN NumTiles ELSE e[i]],
     stack |-> <<>>,
     local_reset_size |-> size,
     local_reset_attempts |-> attempts]

EscalatesEarly(attempts) == attempts >= MaxAttempts

EscalatesLate(attempts) == attempts > MaxAttempts + 1

Escalates(attempts) == attempts > MaxAttempts

TooBigOnlyBeyond(size) == size > output_size + ResetGrowth

TooBig(size) == size > output_size

HandleContradiction(m, e, st, row, col) ==
    LET a1 == local_reset_attempts + 1
        attempts == IF Escalates(a1) THEN 0 ELSE a1
        size == IF Escalates(a1) THEN local_reset_size + ResetGrowth ELSE local_reset_size
    IN  IF TooBig(size) THEN ResetState(m, e)
        ELSE ResetLocal(m, e, st, row, col, size, attempts)

----------------------------------------------------------------------------
(* WfcEngine::new *)

TooManyTilesOffByOne(n) == n >= MaxTiles

TooManyTiles(n) == n > MaxTiles

\* new() returned Err: there is no engine, and nothing to call step() or reset() on
InitFailed(sc) ==
    /\ input_colors = sc.input
    /\ output_size = sc.output_size
    /\ tile_size = sc.tile_size
    /\ tiles = <<>>
    /\ weights = <<>>
    /\ adjacencies = <<>>
    /\ all_flags = {}
    /\ matrix = <<>>
    /\ entropy_map = <<>>
    /\ stack = <<>>
    /\ last_contradiction_pos = "None"
    /\ local_reset_size = 0
    /\ local_reset_attempts = 0
    /\ op = "new"
    /\ ret = "error"
    /\ streak = 0
    /\ run_start = <<0, 0>>
    /\ ever_contradicted = FALSE
    /\ pre_counters = <<0, 0>>
    /\ pre_collapsed = 0
    /\ observed = "none"

Constructed == ret # "error"

InitFrom(sc) ==
    \E counts \in {TileCounts(sc.input, sc.tile_size) @@ <<>>} :
      IF TooManyTiles(Cardinality(DOMAIN counts)) THEN InitFailed(sc)
      ELSE  \E order \in Orders(counts, sc.input) :
            /\ input_colors = sc.input
            /\ output_size = sc.output_size
            /\ tile_size = sc.tile_size
            /\ tiles = order
            /\ weights = [i \in DOMAIN order |-> counts[order[i]]]
            /\ adjacencies = ComputeAdjacencies(order)
            /\ all_flags = AllFlags(Cardinality(DOMAIN order))
            /\ matrix = [i \in 0..(sc.output_size * sc.output_size - 1) |->
                            AllFlags(Cardinality(DOMAIN order))]
            /\ entropy_map = [i \in 0..(sc.output_size * sc.output_size - 1) |->
                            Cardinality(DOMAIN order)]
            /\ stack = <<>>
            /\ last_contradiction_pos = "None"
            /\ local_reset_size = InitialResetSize
            /\ local_reset_attempts = 0
            /\ op = "new"
            /\ ret = "none"
            /\ streak = 0
            /\ run_start = <<InitialResetSize, 0>>
            /\ ever_contradicted = FALSE
            /\ pre_counters = <<InitialResetSize, 0>>
            /\ pre_collapsed = 0
            /\ observed = "none"

Init == \E sc \in Scenarios : InitFrom(sc)

----------------------------------------------------------------------------
(* WfcEngine::step, one whole call *)

CollapseToCell(m, idx, chosen_tile_idx) == [m EXCEPT ![idx] = {idx}]

Collapse(m, idx, chosen_tile_idx) == [m EXCEPT ![idx] = {chosen_tile_idx}]

\* lines 80-92 of step(): collapse cell idx to the observed tile, propagate, and
\* recover if propagation failed; ok tells whether propagate() returned true
CollapseAndPropagate(idx, chosen_tile_idx) ==
    LET row == idx \div output_size
        col == idx % output_size
    IN  CHOOSE fin \in
            {IF p.ok
             THEN [ok |-> TRUE,
                   matrix |-> p.matrix,
                   entropy_map |-> p.entropy_map,
                   stack |-> p.stack,
                   local_reset_size |-> local_reset_size,
                   local_reset_attempts |-> local_reset_attempts]
             ELSE [ok |-> FALSE] @@
                  HandleContradiction(p.matrix, p.entropy_map, p.stack, row, col) :
                p \in {Propagate(Collapse(matrix, idx, chosen_tile_idx),
                                 [entropy_map EXCEPT ![idx] = 1],
                                 Append(stack, <<row, col>>))}} : TRUE

Step ==
    LET candidates == FindLowestEntropy(entropy_map)
    IN  /\ Constructed
        /\ op' = "step"
        /\ pre_counters' = <<local_reset_size, local_reset_attempts>>
        /\ pre_collapsed' = GetCollapsedCount
        /\ UNCHANGED <<immutable, last_contradiction_pos>>
        /\ IF candidates = {}
           THEN /\ ret' = "false"
                /\ observed' = "none"
                /\ streak' = 0
                /\ run_start' = <<local_reset_size, local_reset_attempts>>
                /\ UNCHANGED <<matrix, entropy_map, stack, local_reset_size,
                               local_reset_attempts, ever_contradicted>>
           ELSE \E idx \in Picks(candidates) :
                \E options \in {Options(matrix[idx]) @@ <<>>} :
                \E chosen_tile_idx \in ObserveOutcomes(options) :
                \E fin \in {CollapseAndPropagate(idx, chosen_tile_idx)} :
                    /\ matrix' = fin.matrix
                    /\ entropy_map' = fin.entropy_map
                    /\ stack' = fin.stack
                    /\ local_reset_size' = fin.local_reset_size
                    /\ local_reset_attempts' = fin.local_reset_attempts
                    /\ ret' = "true"
                    /\ observed' = IF Len(options) = 0 THEN "fallback"
                                    ELSE IF chosen_tile_idx \in matrix[idx] THEN "member"
                                    ELSE "other"
                    /\ ever_contradicted' = (ever_contradicted \/ ~fin.ok)
                    /\ streak' = IF fin.ok THEN 0
                                 ELSE IF streak < StreakCap THEN streak + 1 ELSE streak
                    /\ run_start' = IF fin.ok
                                    THEN <<fin.local_reset_size, fin.local_reset_attempts>>
                                    ELSE run_start

(* WfcEngine::reset, called by the user *)
Reset ==
    LET fin == ResetState(matrix, entropy_map)
    IN  /\ Constructed
        /\ matrix' = fin.matrix
        /\ entropy_map' = fin.entropy_map
        /\ stack' = fin.stack
        /\ local_reset_size' = fin.local_reset_size
        /\ local_reset_attempts' = fin.local_reset_attempts
        /\ op' = "reset"
        /\ ret' = "none"
        /\ observed' = "none"
        /\ streak' = 0
        /\ run_start' = <<fin.local_reset_size, fin.local_reset_attempts>>
        /\ pre_counters' = <<local_reset_size, local_reset_attempts>>
        /\ pre_collapsed' = GetCollapsedCount
        /\ UNCHANGED <<immutable, last_contradiction_pos, ever_contradicted>>

Next == Step \/ Reset

Spec == Init /\ [][Next]_vars

(* The checkerboard scenario: step() is the only call, and it keeps being made. *)

InitCheckerboard == Init /\ IsCheckerboard(input_colors) /\ tile_size = 1

NextCheckerboard == Step

SpecCheckerboard == InitCheckerboard /\ [][NextCheckerboard]_vars /\ WF_vars(Step)

(* Tile extraction and adjacency over every small image. *)

InitAnyImage == \E sc \in AnyImageScenarios : InitFrom(sc)

SpecAnyImage == InitAnyImage /\ [][Next]_vars

(* Contradiction recovery by local resets. *)

InitRecovery == \E sc \in RecoveryScenarios : InitFrom(sc)

SpecRecovery == InitRecovery /\ [][Next]_vars

(* Construction around the limit of 128 tiles. *)

InitSizeLimit == \E sc \in SizeLimitScenarios : InitFrom(sc)

SpecSizeLimit == InitSizeLimit /\ [][Next]_vars

----------------------------------------------------------------------------
(* Properties. *)

AllTiles == AllFlags(NumTiles)

\* C1: after every return of step() no cell's Domain is empty; a contradiction
\* found by propagate() is repaired, or never written, before step() returns.
NoEmptyDomainAfterStep == op = "step" => \A i \in Cells : matrix[i] # {}

\* a step() that ended in a contradiction has returned
RepairedContradiction ==
    op = "step" /\ streak > 0 /\ ret = "true" /\ \A i \in Cells : matrix[i] # {}

\* C2: after construction and after every return of step() or reset() each
\* cell's cached entropy is the number of set bits of its Domain.
EntropyConsistent == \A i \in Cells : entropy_map[i] = Cardinality(matrix[i])

\* propagation has narrowed a cell without collapsing it
NarrowedCell ==
    op = "step" /\ \E i \in Cells : entropy_map[i] > 1 /\ entropy_map[i] < NumTiles

\* C3: step() returns false exactly when, at the call, no cell has entropy > 1;
\* then every cell holds exactly one tile; in every other case it returns true.
StepReturnsFalseIffDone ==
    [][op' = "step" =>
        /\ ret' \in {"true", "false"}
        /\ (ret' = "false") <=> (\A i \in Cells : entropy_map[i] <= 1)
        /\ (ret' = "false") => (\A i \in Cells : Cardinality(matrix'[i]) = 1)
        /\ (streak' > 0) => (ret' = "true")]_vars

\* step() has returned false on a grid that has cells
ReturnedFalse == op = "step" /\ ret = "false" /\ output_size > 0 /\ NumTiles > 1

\* C4 as stated: right after reset() get_collapsed_count() is 0 and every Domain
\* is the all-tiles Domain, for any tile set of 1 to 128 tiles.
ResetYieldsZeroCollapsed ==
    op = "reset" => GetCollapsedCount = 0 /\ \A i \in Cells : matrix[i] = AllTiles

\* C4 amended: right after reset() every Domain is the all-tiles Domain and
\* get_collapsed_count() is 0 when there are at least 2 tiles; with a single
\* tile every cell counts as collapsed and it is output_size * output_size.
ResetYieldsAllTiles ==
    op = "reset" =>
        /\ \A i \in Cells : matrix[i] = AllTiles
        /\ GetCollapsedCount = IF NumTiles = 1 THEN output_size * output_size ELSE 0

\* reset() was called on a grid with collapsed cells and several tiles
ResetAfterCollapses ==
    op = "reset" /\ pre_collapsed > 0 /\ NumTiles > 1 /\ GetCollapsedCount = 0

\* C5: reset() in any state puts the mutable engine state back to the state
\* after construction and leaves tiles, weights and adjacencies alone; a second
\* reset() changes nothing.
ResetRestoresInitialState ==
    /\ [][op' = "reset" =>
            /\ matrix' = [i \in Cells |-> AllTiles]
            /\ entropy_map' = [i \in Cells |-> NumTiles]
            /\ stack' = <<>>
            /\ local_reset_size' = InitialResetSize
            /\ local_reset_attempts' = 0
            /\ last_contradiction_pos' = "None"
            /\ UNCHANGED immutable]_vars
    /\ [](op = "reset" =>
            LET again == ResetState(matrix, entropy_map)
            IN  /\ again.matrix = matrix
                /\ again.entropy_map = entropy_map
                /\ again.stack = stack
                /\ again.local_reset_size = local_reset_size
                /\ again.local_reset_attempts = local_reset_attempts)

\* reset() was called after the recovery had escalated the radius
ResetAfterEscalation ==
    op = "reset" /\ pre_counters[1] > InitialResetSize /\ local_reset_size = InitialResetSize

\* C6: on the checkerboard input with tile_size 1, repeated step() calls end
\* with step() returning false, all cells collapsed and no contradiction.
CheckerboardTerminates ==
    /\ <>(ret = "false")
    /\ [](~ever_contradicted)
    /\ [](ret = "false" => GetCollapsedCount = output_size * output_size)

\* the checkerboard run has ended on a grid with several cells
CheckerboardDone ==
    /\ IsCheckerboard(input_colors) /\ tile_size = 1 /\ output_size >= 2
    /\ ret = "false" /\ GetCollapsedCount = output_size * output_size

\* C7 as stated: from counters (8, 0), after each of the first 8 contradictions
\* in a row the radius is unchanged, after the 9th it is 12 with 0 attempts,
\* whatever output_size is.
NinthContradictionGrowsRadius ==
    run_start = <<InitialResetSize, 0>> =>
        /\ (streak \in 1..MaxAttempts) => local_reset_size = InitialResetSize
        /\ (streak = MaxAttempts + 1) =>
                /\ local_reset_size = InitialResetSize + ResetGrowth
                /\ local_reset_attempts = 0

\* C7 amended: the radius is 12 after the 9th only when output_size >= 12;
\* below that the same call ends in a full reset and the radius is 8 again.
NinthContradictionGrowsOrResets ==
    run_start = <<InitialResetSize, 0>> =>
        /\ (streak \in 1..MaxAttempts) => local_reset_size = InitialResetSize
        /\ (streak = MaxAttempts + 1) =>
                /\ local_reset_size =
                        IF output_size >= InitialResetSize + ResetGrowth
                        THEN InitialResetSize + ResetGrowth
                        ELSE InitialResetSize
                /\ local_reset_attempts = 0

\* nine contradictions in a row on a grid wide enough for radius 12
NinthContradictionOnWideGrid ==
    /\ run_start = <<InitialResetSize, 0>> /\ streak = MaxAttempts + 1
    /\ output_size >= InitialResetSize + ResetGrowth
    /\ local_reset_size = InitialResetSize + ResetGrowth

\* C8: bit j is set in adjacency[i][d] iff bit i is set in adjacency[j][opposite(d)].
AdjacencySymmetric ==
    \A i, j \in DOMAIN tiles : \A d \in DirSet :
        (j \in adjacencies[i][d]) <=> (i \in adjacencies[j][Opposite(d)])

\* a tile set in which some pairs are compatible and some are not
MixedAdjacency ==
    /\ op = "new" /\ NumTiles = 4
    /\ \E i, j \in DOMAIN tiles : \E d \in DirSet : j \in adjacencies[i][d]
    /\ \E i, j \in DOMAIN tiles : \E d \in DirSet : j \notin adjacencies[i][d]

\* C9 as stated: for the checkerboard with tile_size 1, A and B are compatible
\* in all 4 directions and A with A, B with B incompatible in all 4.
CheckerboardAlternates ==
    (IsCheckerboard(input_colors) /\ tile_size = 1) =>
        \A i, j \in DOMAIN tiles : \A d \in DirSet :
            (j \in adjacencies[i][d]) <=> (tiles[i] # tiles[j])

\* C9 amended: 1x1 tiles never overlap under a unit shift, so every pair,
\* A with A and B with B included, is compatible in all 4 directions.
CheckerboardAllCompatible ==
    (IsCheckerboard(input_colors) /\ tile_size = 1) =>
        \A i, j \in DOMAIN tiles : \A d \in DirSet : j \in adjacencies[i][d]

\* the adjacency table of the checkerboard has been computed
CheckerboardAdjacencyBuilt ==
    /\ IsCheckerboard(input_colors) /\ tile_size = 1 /\ op = "new"
    /\ adjacencies[0][<<-1, 0>>] = {0, 1}

\* C10 as stated: the checkerboard with tile_size 1 yields 2 tiles of weight 4.
CheckerboardWeightsFour ==
    (IsCheckerboard(input_colors) /\ tile_size = 1) =>
        NumTiles = 2 /\ \A i \in DOMAIN tiles : weights[i] = 4

\* C10 amended: 2 tiles, each of weight 8 (2 windows per colour, each
\* registered once per rotation).
CheckerboardWeightsEight ==
    (IsCheckerboard(input_colors) /\ tile_size = 1) =>
        /\ NumTiles = 2
        /\ tiles[0] # tiles[1]
        /\ \A i \in DOMAIN tiles : weights[i] = 8

\* the tiles of the checkerboard have been extracted
CheckerboardTilesExtracted ==
    /\ IsCheckerboard(input_colors) /\ tile_size = 1 /\ op = "new"
    /\ DOMAIN weights = {0, 1} /\ weights[0] = 8

\* C11: new() fails exactly when extraction yields more than 128 unique tiles;
\* otherwise the engine holds every extracted tile once, and all_flags has
\* exactly one bit per tile, bits 0..T-1.
SizeLimitEnforced ==
    op = "new" =>
        \E keys \in {DOMAIN TileCounts(input_colors, tile_size)} :
        \E n \in {Cardinality(keys)} :
            /\ (ret = "error") <=> (n >= MaxTiles + 1)
            /\ (ret # "error") =>
                    /\ n \in 1..MaxTiles
                    /\ DOMAIN tiles = 0..(n - 1)
                    /\ {tiles[i] : i \in DOMAIN tiles} = keys
                    /\ all_flags = 0..(n - 1)
                    /\ Cardinality(all_flags) = n
                    /\ \A i \in Cells : matrix[i] = all_flags

\* an engine was built over exactly 128 tiles and has collapsed its cell
EngineAtTheLimit ==
    /\ NumTiles = MaxTiles /\ op = "step" /\ ret = "true"
    /\ Cardinality(all_flags) = MaxTiles /\ GetCollapsedCount = 1

\* local_reset_size as handle_contradiction compares it with output_size, when
\* it is entered with the counters cs = <<local_reset_size, local_reset_attempts>>
GrownSize(cs) == IF cs[2] + 1 > MaxAttempts THEN cs[1] + ResetGrowth ELSE cs[1]

\* C12: when the step that just returned found a contradiction and the radius,
\* after the growth of that same call, exceeded output_size, a full reset was
\* done: every Domain is all-tiles, get_collapsed_count() is 0, the stack is
\* empty, the radius is 8 and the attempt count 0.
FullResetWhenRadiusExceedsGrid ==
    (op = "step" /\ streak > 0 /\ GrownSize(pre_counters) > output_size) =>
        /\ \A i \in Cells : matrix[i] = AllTiles /\ entropy_map[i] = NumTiles
        /\ GetCollapsedCount = 0
        /\ stack = <<>>
        /\ local_reset_size = InitialResetSize
        /\ local_reset_attempts = 0

\* the radius grew past the grid in a call made on a grid with collapsed
\* cells, after local resets, and the grid was reset in full
FullResetAfterGrowth ==
    /\ op = "step" /\ streak > 0 /\ output_size >= InitialResetSize
    /\ pre_counters = <<InitialResetSize, MaxAttempts>> /\ pre_collapsed > 0
    /\ GetCollapsedCount = 0 /\ local_reset_size = InitialResetSize

\* C13: a step that ends in a local reset with radius s, after collapsing cell
\* (row, col), leaves all-tiles (entropy = tile count) in every in-grid cell
\* whose offsets from (row, col) are in -s/2 .. s/2 - 1, the cell (row, col)
\* among them, and leaves every other cell as propagate() left it when it
\* found the contradiction.
LocalResetFrame ==
    [][(op' = "step" /\ streak' > 0 /\ GrownSize(<<local_reset_size, local_reset_attempts>>) <= output_size) =>
        \E s \in {GrownSize(<<local_reset_size, local_reset_attempts>>)} :
        \E idx \in {i \in FindLowestEntropy(entropy_map) : matrix'[i] = AllTiles} :
        \E t \in matrix[idx] :
        \E p \in {Propagate(Collapse(matrix, idx, t), [entropy_map EXCEPT ![idx] = 1],
                            << <<idx \div output_size, idx % output_size>> >>)} :
            /\ ~p.ok
            /\ local_reset_size' = s
            /\ matrix'[idx] = AllTiles
            /\ \A i \in Cells :
                LET dr == (i \div output_size) - (idx \div output_size)
                    dc == (i % output_size) - (idx % output_size)
                    r == s \div 2
                IN  IF dr \in (0 - r)..(r - 1) /\ dc \in (0 - r)..(r - 1)
                    THEN matrix'[i] = AllTiles /\ entropy_map'[i] = NumTiles
                    ELSE matrix'[i] = p.matrix[i] /\ entropy_map'[i] = p.entropy_map[i]]_vars

\* a local reset has restored part of the grid and left narrowed or collapsed
\* cells elsewhere
LocalResetKeptOutside ==
    /\ op = "step" /\ streak > 0 /\ local_reset_attempts > 0
    /\ \E i \in Cells : matrix[i] = AllTiles
    /\ \E i \in Cells : matrix[i] # AllTiles
    /\ GetCollapsedCount > 0

\* C14: in a step() that returns true without a contradiction every Domain
\* becomes a non-empty subset of what it was, a collapsed cell keeps its tile,
\* a cell that find_lowest_entropy could select becomes collapsed to one of its
\* tiles, and get_collapsed_count() grows.
StepOnlyNarrows ==
    [][(op' = "step" /\ ret' = "true" /\ streak' = 0) =>
        /\ \A i \in Cells : matrix'[i] # {} /\ matrix'[i] \subseteq matrix[i]
        /\ \A i \in Cells : Cardinality(matrix[i]) = 1 => matrix'[i] = matrix[i]
        /\ \E idx \in FindLowestEntropy(entropy_map) :
                /\ Cardinality(matrix[idx]) > 1
                /\ Cardinality(matrix'[idx]) = 1
                /\ entropy_map'[idx] = 1
        /\ GetCollapsedCount' > GetCollapsedCount]_vars

\* a step without contradiction collapsed the selected cell and, by
\* propagation, at least one more
StepCollapsedSeveral ==
    /\ op = "step" /\ ret = "true" /\ streak = 0 /\ NumTiles > 1
    /\ GetCollapsedCount >= pre_collapsed + 2
    /\ \E i \in Cells : entropy_map[i] > 1

\* C15: the stack is empty whenever a call has returned: after new(), step()
\* and reset().
StackEmptyBetweenCalls == stack = <<>>

\* a step() has ended in a local reset on a grid that keeps narrowed cells
LocalResetReturned ==
    /\ op = "step" /\ streak > 0 /\ local_reset_attempts > 0 /\ stack = <<>>
    /\ \E i \in Cells : entropy_map[i] < NumTiles

\* C16: observe() is never called on an empty Domain, and the tile it returns
\* is a member of the selected cell's Domain.
ObservedTileIsMember == observed \in {"none", "member"}

\* observe() has drawn from a Domain narrowed by propagation
ObservedNarrowedDomain ==
    /\ op = "step" /\ observed = "member" /\ pre_collapsed > 0
    /\ GetCollapsedCount > pre_collapsed

\* C17: the radius grows (the attempt count passes 8 in handle_contradiction)
\* only in the last of more than 8 step() calls in a row that each ended in a
\* contradiction.
EscalatesOnlyInARow ==
    (op = "step" /\ streak > 0 /\ pre_counters[2] + 1 > MaxAttempts) => streak > MaxAttempts

\* tile j shifted by d over tile i: tile j's cell (r, c) lies over tile i's
\* cell (r + dr, c + dc), and every such pair has the same colour
ShiftedOverlapAgrees(ti, tj, d) ==
    \A r, c \in 0..(Len(ti) - 1) :
        (r + d[1] \in 0..(Len(ti) - 1) /\ c + d[2] \in 0..(Len(ti) - 1))
            => Px(tj, r, c) = Px(ti, r + d[1], c + d[2])

\* C18: bit j is set in adjacency[i][d] iff tile j, shifted by d relative to
\* tile i, agrees with tile i on every overlapping pair of cells.
AdjacencyIsShiftedOverlap ==
    \A i, j \in DOMAIN tiles : \A d \in DirSet :
        (j \in adjacencies[i][d]) <=> ShiftedOverlapAgrees(tiles[i], tiles[j], d)

\* C19: when step() returns false in a run without any contradiction, every
\* cell's tile i and its neighbour's tile j in direction d have bit j set in
\* adjacency[i][d].
DoneIsLocallyConsistent ==
    (op = "step" /\ ret = "false" /\ ~ever_contradicted) =>
        \A i \in Cells : \A d \in DirSet :
            LET nr == (i \div output_size) + d[1]
                nc == (i % output_size) + d[2]
            IN  InGrid(nr, nc) =>
                    \A a \in matrix[i] : \A b \in matrix[Idx(nr, nc)] : b \in adjacencies[a][d]

\* C20: between calls the attempt count is in 0..8, the radius is a multiple
\* of 4, at least 8, and either 8 or at most output_size.
CountersBounded ==
    /\ local_reset_attempts \in 0..MaxAttempts
    /\ local_reset_size % ResetGrowth = 0
    /\ local_reset_size >= InitialResetSize
    /\ local_reset_size = InitialResetSize \/ local_reset_size <= output_size

\* the radius has grown and survived, with attempts counted again
GrownRadiusInUse ==
    /\ local_reset_size = InitialResetSize + ResetGrowth
    /\ local_reset_size <= output_size
    /\ local_reset_attempts = MaxAttempts

====
